---- MODULE Spec2Model ----
(***************************************************************************)
(* Model of Project_Template_CGD6214/main.cpp: the solar-system viewer.    *)
(*                                                                         *)
(* The program is single threaded.  One iteration of the render loop       *)
(* (main.cpp:421-672) runs lines 422-667 (action Frame), then              *)
(* glfwPollEvents (line 668), inside which GLFW calls scroll_cb,           *)
(* mouse_btn_cb, cursor_cb and key_cb any number of times, then samples    *)
(* the framebuffer size and tests the loop condition (action PollEnd).     *)
(*                                                                         *)
(* Fixed-point units (the source uses float):                              *)
(*   camYaw, camPitch, freeYaw, freePitch   1/1000 radian                  *)
(*   orbitAngle, spinAngle                  1/16 degree                    *)
(*   dt, last                               1/4 second                     *)
(*   timeScale                              1/4                            *)
(*   freePos                                1/4 world unit                 *)
(*   camDist, focusDist, fovDeg, cursor     the source's unit              *)
(* The FPS read-out (lines 412-444) and the console output are not state   *)
(* that any handler reads back and are left out.                           *)
(***************************************************************************)
EXTENDS Integers, Sequences, FiniteSets, TLC

VARIABLES
    pc,            \* "frame": top of the loop body; "poll": inside glfwPollEvents; "done": loop left
    camMode, showOrbits, showStars, paused, timeScale, fovDeg,
    winW, winH,
    camYaw, camPitch, camDist,
    freePos, freeYaw, freePitch,
    rmbDown, lastX, lastY,
    focusIndex, focusDist,
    fullscreen, savedX, savedY, savedW, savedH,
    planets,       \* body name -> [orbitAngle, spinAngle]
    last, prevSpace,
    shouldClose,   \* GLFW's window-should-close flag
    cursor,        \* GLFW's cursor position [x, y]
    wnd,           \* GLFW's window: [x, y, w, h, monitor]
    eyePitch,      \* <<p>>: the camPitch the last frame's camera build read (lines 243, 487);
                   \* <<>> when it read none (FREE, or no frame yet)
    focusBody,     \* <<k>>: the arr[] slot the last frame's FOCUS camera build read
                   \* (line 482); <<>> when it read none
    textures,      \* texture variable of main (lines 381-392) -> GL texture name, 0 when the load failed
    gl,            \* the OpenGL state the draws depend on: depth mask, cull face, program,
                   \* the useTexture uniform of prog, the 2D texture bound
    draws,         \* the glDrawElements calls of the last pass of the loop body, in order,
                   \* each with the OpenGL state it was issued under
    call, ret      \* a call of a pure function (mesh builders, moon transform) and its result

camVars   == <<camMode, fovDeg, camYaw, camPitch, camDist, freePos, freeYaw, freePitch,
               focusIndex, focusDist>>
mouseVars == <<rmbDown, lastX, lastY, cursor>>
simVars   == <<paused, timeScale, planets, last, prevSpace>>
winVars   == <<fullscreen, savedX, savedY, savedW, savedH, wnd, winW, winH>>
miscVars  == <<showOrbits, showStars, shouldClose>>
frameVars == <<eyePitch, focusBody>>
glVars    == <<textures, gl, draws>>
pureVars  == <<call, ret>>
vars == <<pc, camVars, mouseVars, simVars, winVars, miscVars, frameVars, glVars, pureVars>>

----------------------------------------------------------------------------
(* Arithmetic helpers *)

Min(a, b) == IF b < a THEN b ELSE a
Max(a, b) == IF a < b THEN b ELSE a
Abs(a) == IF a < 0 THEN -a ELSE a

\* glm::clamp(x, lo, hi) = min(max(x, lo), hi)
Clamp(x, lo, hi) == Min(Max(x, lo), hi)

\* C's % on int: the remainder has the sign of the dividend
CRem(a, b) == IF a >= 0 THEN a % b ELSE -((-a) % b)


----------------------------------------------------------------------------
(* Program constants, in the model's units *)

FovMin == 20
FovMax == 90
FovInit == 45
CamDistMin == 5
CamDistMax == 400
CamDistInit == 45
FocusDistMin == 3
FocusDistMax == 400
FocusDistInit == 12
FocusCount == 9
FocusLast == 8
PitchLimit == 1553          \* glm::radians(89.0f)
FreePitchLimit == 1484      \* glm::radians(85.0f)
CamPitchInit == 262         \* glm::radians(15.0f)
HalfPi == 1571              \* a pitch beyond this puts the eye over the pole
OrbitDragGain == 5          \* 0.005 rad per pixel
FreeDragGain == 2           \* 0.002 rad per pixel
YawNudge == 40              \* 0.04 rad per frame
PitchNudge == 30            \* 0.03 rad per frame
ScrollDistGain == 2
FocusKeyStep == 2
TimeScaleStep == 1          \* 0.25
TimeScaleInit == 4          \* 1.0
MoveFast == 25
MoveSlow == 8

----------------------------------------------------------------------------
(* sinf / cosf on 1/1000 radian, result in 1/1000: a Taylor polynomial     *)
(* after reduction to [-pi/2, pi/2]                                        *)

Pi == 2 * HalfPi
TwoPi == 4 * HalfPi

ReduceAngle(x) ==
    LET r == x % TwoPi
        s == IF r > Pi THEN r - TwoPi ELSE r
    IN  IF s > HalfPi THEN Pi - s ELSE IF s < -HalfPi THEN -Pi - s ELSE s

SinPoly(a) ==
    LET x2 == (a * a) \div 1000
        t3 == (a * x2) \div 6000
        t5 == (t3 * x2) \div 20000
        t7 == (t5 * x2) \div 42000
    IN  a - t3 + t5 - t7

sinf(x) == LET r == ReduceAngle(x) IN IF r < 0 THEN -SinPoly(-r) ELSE SinPoly(r)
cosf(x) == sinf(x + HalfPi)

----------------------------------------------------------------------------
(* Bodies (main.cpp:395-407): orbitRadius, orbitSpeed, spinSpeed *)

Bodies == {"sun", "mercury", "venus", "earth", "moon", "mars", "jupiter",
           "saturn", "uranus", "neptune", "europa"}

PlanetInit ==
    [b \in Bodies |->
       CASE b = "sun"     -> [orbitRadius |-> 0,  orbitSpeed |-> 0,  spinSpeed |-> 10]
         [] b = "mercury" -> [orbitRadius |-> 6,  orbitSpeed |-> 48, spinSpeed |-> 6]
         [] b = "venus"   -> [orbitRadius |-> 9,  orbitSpeed |-> 35, spinSpeed |-> -2]
         [] b = "earth"   -> [orbitRadius |-> 12, orbitSpeed |-> 30, spinSpeed |-> 50]
         [] b = "moon"    -> [orbitRadius |-> 2,  orbitSpeed |-> 80, spinSpeed |-> 20]
         [] b = "mars"    -> [orbitRadius |-> 15, orbitSpeed |-> 24, spinSpeed |-> 40]
         [] b = "jupiter" -> [orbitRadius |-> 20, orbitSpeed |-> 13, spinSpeed |-> 80]
         [] b = "saturn"  -> [orbitRadius |-> 26, orbitSpeed |-> 10, spinSpeed |-> 70]
         [] b = "uranus"  -> [orbitRadius |-> 32, orbitSpeed |-> 7,  spinSpeed |-> 50]
         [] b = "neptune" -> [orbitRadius |-> 38, orbitSpeed |-> 5,  spinSpeed |-> 40]
         [] b = "europa"  -> [orbitRadius |-> 3,  orbitSpeed |-> 90, spinSpeed |-> 15]]

\* Planet* arr[9] of the FOCUS camera build (line 481), 0-based in the source
arr == <<"sun", "mercury", "venus", "earth", "mars", "jupiter", "saturn",
         "uranus", "neptune">>

\* the bodies whose orbitAngle the animate block advances (lines 463-473):
\* every body but the sun, whose spinAngle alone is advanced
OrbitAnimated == Bodies \ {"sun"}

----------------------------------------------------------------------------
(* Initial state: the globals of lines 50-77 and the locals of main set    *)
(* before the loop (lines 395-410).  The window manager places the window. *)

InitWindow == [w |-> 1280, h |-> 720]
SavedInit == [x |-> 100, y |-> 100, w |-> 1280, h |-> 720]
FreePosInit == [x |-> 0, y |-> 40, z |-> 240]

NoCall == [fn |-> "none"]

\* the texture variables of main in load order (lines 381-392)
TextureVars == <<"texSun", "texMercury", "texVenus", "texEarth", "texMoon", "texMars",
                 "texJupiter", "texSaturn", "texRing", "texUranus", "texNeptune", "texStars">>
TextureSet == {TextureVars[k] : k \in DOMAIN TextureVars}

\* loadTexture2D (lines 141-154) for the k-th load: 0 when stbi_load fails,
\* else the name glGenTextures hands out, which is nonzero and fresh
loadTexture2D(k, failed) == IF TextureVars[k] \in failed THEN 0 ELSE k

LoadTextures(failed) ==
    [t \in TextureSet |->
        loadTexture2D(CHOOSE k \in DOMAIN TextureVars : TextureVars[k] = t, failed)]

\* the texture left bound by the loads: loadTexture2D binds the texture it
\* creates (line 146) and a failed load binds nothing
RECURSIVE LastBound(_, _)
LastBound(k, failed) ==
    IF k = 0 THEN 0
    ELSE IF loadTexture2D(k, failed) # 0 THEN loadTexture2D(k, failed)
    ELSE LastBound(k - 1, failed)

\* the OpenGL state on entry to the loop: depth mask and cull face at their
\* defaults, prog in use (line 360), its useTexture uniform never written
GLInit(failed) ==
    [depthMask |-> TRUE, cullFace |-> "BACK", program |-> "prog",
     useTexture |-> FALSE, texture |-> LastBound(Len(TextureVars), failed)]

InitLoaded(px, py, failed) ==
    /\ pc = "frame"
    /\ camMode = "ORBIT"
    /\ showOrbits = TRUE /\ showStars = TRUE /\ paused = FALSE
    /\ timeScale = TimeScaleInit
    /\ fovDeg = FovInit
    /\ winW = InitWindow.w /\ winH = InitWindow.h
    /\ camYaw = 0 /\ camPitch = CamPitchInit /\ camDist = CamDistInit
    /\ freePos = FreePosInit /\ freeYaw = 0 /\ freePitch = 0
    /\ rmbDown = FALSE /\ lastX = 0 /\ lastY = 0
    /\ focusIndex = 0 /\ focusDist = FocusDistInit
    /\ fullscreen = FALSE
    /\ savedX = SavedInit.x /\ savedY = SavedInit.y
    /\ savedW = SavedInit.w /\ savedH = SavedInit.h
    /\ planets = [b \in Bodies |-> [orbitAngle |-> 0, spinAngle |-> 0]]
    /\ last = 0 /\ prevSpace = FALSE
    /\ shouldClose = FALSE
    /\ cursor = [x |-> 0, y |-> 0]
    /\ wnd = [x |-> px, y |-> py, w |-> InitWindow.w, h |-> InitWindow.h,
              monitor |-> "none"]
    /\ eyePitch = <<>> /\ focusBody = <<>>
    /\ textures = LoadTextures(failed)
    /\ gl = GLInit(failed)
    /\ draws = <<>>

\* every texture file is present
InitAt(px, py) == InitLoaded(px, py, {})

Init == InitAt(SavedInit.x, SavedInit.y) /\ call = NoCall /\ ret = NoCall

----------------------------------------------------------------------------
(* toggle_fullscreen (lines 246-259), as a function of the state it reads  *)
(* and writes.  glfwGetWindowPos/Size read GLFW's window; glfwSetWindow-   *)
(* Monitor sets it.                                                        *)

VidMode == [width |-> 1920, height |-> 1080]

WinState == [fullscreen |-> fullscreen, savedX |-> savedX, savedY |-> savedY,
             savedW |-> savedW, savedH |-> savedH, wnd |-> wnd]

\* mutant: the window size is not saved before going fullscreen
toggle_fullscreen_SizeNotSaved(st) ==
    IF ~st.fullscreen
    THEN [fullscreen |-> TRUE,
          savedX |-> st.wnd.x, savedY |-> st.wnd.y,
          savedW |-> st.savedW, savedH |-> st.savedH,
          wnd |-> [x |-> 0, y |-> 0, w |-> VidMode.width, h |-> VidMode.height,
                   monitor |-> "primary"]]
    ELSE [fullscreen |-> FALSE,
          savedX |-> st.savedX, savedY |-> st.savedY,
          savedW |-> st.savedW, savedH |-> st.savedH,
          wnd |-> [x |-> st.savedX, y |-> st.savedY, w |-> st.savedW, h |-> st.savedH,
                   monitor |-> "none"]]

toggle_fullscreen(st) ==
    IF ~st.fullscreen
    THEN [fullscreen |-> TRUE,
          savedX |-> st.wnd.x, savedY |-> st.wnd.y,
          savedW |-> st.wnd.w, savedH |-> st.wnd.h,
          wnd |-> [x |-> 0, y |-> 0, w |-> VidMode.width, h |-> VidMode.height,
                   monitor |-> "primary"]]
    ELSE [fullscreen |-> FALSE,
          savedX |-> st.savedX, savedY |-> st.savedY,
          savedW |-> st.savedW, savedH |-> st.savedH,
          wnd |-> [x |-> st.savedX, y |-> st.savedY, w |-> st.savedW, h |-> st.savedH,
                   monitor |-> "none"]]

----------------------------------------------------------------------------
(* scroll_cb (lines 262-272) *)

\* mutant: the focus distance is floored but not capped
ScrollFocusDist_NoCap(yoff) == Max(focusDist - yoff * ScrollDistGain, FocusDistMin)
\* mutant: the FREE-mode scroll writes the field of view unclamped
ScrollFov_NoClamp(yoff) == fovDeg - yoff

ScrollFov(yoff) == Clamp(fovDeg - yoff, FovMin, FovMax)
ScrollFocusDist(yoff) == Clamp(focusDist - yoff * ScrollDistGain, FocusDistMin, FocusDistMax)
ScrollCamDist(yoff) == Clamp(camDist - yoff * ScrollDistGain, CamDistMin, CamDistMax)

\* mutant: the FREE and FOCUS branches do not return, and fall through to
\* the Orbit distance
scroll_cb_NoReturn(yoff) ==
    /\ pc = "poll"
    /\ fovDeg' = IF camMode = "FREE" THEN ScrollFov(yoff) ELSE fovDeg
    /\ focusDist' = IF camMode = "FOCUS" THEN ScrollFocusDist(yoff) ELSE focusDist
    /\ camDist' = ScrollCamDist(yoff)
    /\ UNCHANGED <<pc, camMode, camYaw, camPitch, freePos, freeYaw, freePitch, focusIndex>>
    /\ UNCHANGED <<mouseVars, simVars, winVars, miscVars, frameVars, glVars, pureVars>>

scroll_cb(yoff) ==
    /\ pc = "poll"
    /\ fovDeg' = IF camMode = "FREE" THEN ScrollFov(yoff) ELSE fovDeg
    /\ focusDist' = IF camMode = "FOCUS" THEN ScrollFocusDist(yoff) ELSE focusDist
    /\ camDist' = IF camMode \notin {"FREE", "FOCUS"} THEN ScrollCamDist(yoff) ELSE camDist
    /\ UNCHANGED <<pc, camMode, camYaw, camPitch, freePos, freeYaw, freePitch, focusIndex>>
    /\ UNCHANGED <<mouseVars, simVars, winVars, miscVars, frameVars, glVars, pureVars>>

(* mouse_btn_cb (lines 273-278) *)
mouse_btn_cb(button, action) ==
    /\ pc = "poll"
    /\ IF button = "RIGHT"
       THEN IF action = "PRESS"
            THEN rmbDown' = TRUE /\ lastX' = cursor.x /\ lastY' = cursor.y
            ELSE rmbDown' = FALSE /\ UNCHANGED <<lastX, lastY>>
       ELSE UNCHANGED <<rmbDown, lastX, lastY>>
    /\ UNCHANGED <<pc, cursor, camVars, simVars, winVars, miscVars, frameVars, glVars, pureVars>>

(* cursor_cb (lines 279-290): GLFW reports the cursor moved to (x, y) *)
DragCamYaw(dx) == camYaw + dx * OrbitDragGain
DragCamPitch(dy) == Clamp(camPitch - dy * OrbitDragGain, -PitchLimit, PitchLimit)
DragFreeYaw(dx) == freeYaw + dx * FreeDragGain
DragFreePitch(dy) == Clamp(freePitch - dy * FreeDragGain, -FreePitchLimit, FreePitchLimit)

cursor_cb(x, y) ==
    /\ pc = "poll"
    /\ cursor' = [x |-> x, y |-> y]
    /\ IF ~rmbDown
       THEN UNCHANGED <<lastX, lastY, camYaw, camPitch, freeYaw, freePitch>>
       ELSE LET dx == x - lastX
                dy == y - lastY
            IN  /\ lastX' = x /\ lastY' = y
                /\ IF camMode # "FREE"
                   THEN /\ camYaw' = DragCamYaw(dx)
                        /\ camPitch' = DragCamPitch(dy)
                        /\ UNCHANGED <<freeYaw, freePitch>>
                   ELSE /\ freeYaw' = DragFreeYaw(dx)
                        /\ freePitch' = DragFreePitch(dy)
                        /\ UNCHANGED <<camYaw, camPitch>>
    /\ UNCHANGED <<pc, rmbDown, camMode, fovDeg, camDist, freePos, focusIndex, focusDist>>
    /\ UNCHANGED <<simVars, winVars, miscVars, frameVars, glVars, pureVars>>

(* key_cb (lines 291-315) *)
\* mutant: next wraps one slot early
FocusNext_WrapEarly(i) == CRem(i + 1, FocusLast)
\* mutant: prev written as a decrement, which C's % leaves negative at 0
FocusPrev_Decrement(i) == CRem(i - 1, FocusCount)

FocusNext(i) == CRem(i + 1, FocusCount)
FocusPrev(i) == CRem(i + FocusLast, FocusCount)
FovKey(delta) == Clamp(fovDeg + delta, FovMin, FovMax)
FocusDistZ == Max(FocusDistMin, focusDist - FocusKeyStep)
FocusDistX == Min(FocusDistMax, focusDist + FocusKeyStep)
TimeScaleDown == Max(0, timeScale - TimeScaleStep)
TimeScaleUp == timeScale + TimeScaleStep

key_cb(key, action, alt) ==
    /\ pc = "poll"
    /\ action \in {"PRESS", "REPEAT"}
    /\ LET toggles == key = "F11" \/ (key = "ENTER" /\ alt)
           t == IF toggles THEN toggle_fullscreen(WinState) ELSE WinState
       IN  /\ fullscreen' = t.fullscreen
           /\ savedX' = t.savedX /\ savedY' = t.savedY
           /\ savedW' = t.savedW /\ savedH' = t.savedH
           /\ wnd' = t.wnd
    /\ shouldClose' = IF key = "ESCAPE" THEN TRUE ELSE shouldClose
    /\ camMode' = CASE key = "1" -> "ORBIT"
                    [] key = "2" -> "FREE"
                    [] key = "3" -> "FOCUS"
                    [] OTHER -> camMode
    /\ focusIndex' = CASE key = "N" -> FocusNext(focusIndex)
                       [] key = "P" -> FocusPrev(focusIndex)
                       [] OTHER -> focusIndex
    /\ showOrbits' = IF key = "H" THEN ~showOrbits ELSE showOrbits
    /\ showStars' = IF key = "B" THEN ~showStars ELSE showStars
    /\ timeScale' = CASE key = "LEFT_BRACKET" -> TimeScaleDown
                      [] key = "RIGHT_BRACKET" -> TimeScaleUp
                      [] OTHER -> timeScale
    /\ fovDeg' = CASE key = "MINUS" -> FovKey(-1)
                   [] key = "EQUAL" -> FovKey(1)
                   [] OTHER -> fovDeg
    /\ focusDist' = CASE key = "Z" /\ camMode = "FOCUS" -> FocusDistZ
                      [] key = "X" /\ camMode = "FOCUS" -> FocusDistX
                      [] OTHER -> focusDist
    /\ UNCHANGED <<pc, camYaw, camPitch, camDist, freePos, freeYaw, freePitch>>
    /\ UNCHANGED <<mouseVars, paused, planets, last, prevSpace, winW, winH>>
    /\ UNCHANGED <<frameVars, glVars, pureVars>>

----------------------------------------------------------------------------
(* One pass of the loop body, lines 422-667.  dt = now - last; held is the *)
(* set of keys glfwGetKey reports pressed during this pass.                *)

\* spacebar pause, edge-detected (lines 447-452)
PausedAfterSpace(held) == IF "SPACE" \in held /\ ~prevSpace THEN ~paused ELSE paused

\* keyboard nudge for the orbit camera (lines 455-458)
NudgedYaw(held) ==
    LET a == IF "A" \in held /\ camMode # "FREE" THEN camYaw - YawNudge ELSE camYaw
    IN  IF "D" \in held /\ camMode # "FREE" THEN a + YawNudge ELSE a
\* mutant: the pitch nudge is applied in every mode
NudgedPitch_AnyMode(held) ==
    LET q == IF "Q" \in held THEN camPitch + PitchNudge ELSE camPitch
    IN  IF "E" \in held THEN q - PitchNudge ELSE q
NudgedPitch(held) ==
    LET q == IF "Q" \in held /\ camMode # "FREE" THEN camPitch + PitchNudge ELSE camPitch
    IN  IF "E" \in held /\ camMode # "FREE" THEN q - PitchNudge ELSE q

\* mutant: the pause flag is not consulted
Advance_IgnoresPause(isPaused, dt) == dt * timeScale

\* float adv = paused ? 0.0f : (dt * timeScale)  (line 460), in 1/16 second
Advance(isPaused, dt) == IF isPaused THEN 0 ELSE dt * timeScale

\* animate (lines 463-473)
Animate(adv) ==
    [b \in Bodies |->
       [orbitAngle |-> IF b \in OrbitAnimated
                       THEN planets[b].orbitAngle + PlanetInit[b].orbitSpeed * adv
                       ELSE planets[b].orbitAngle,
        spinAngle  |-> planets[b].spinAngle + PlanetInit[b].spinSpeed * adv]]

\* arr[std::max(0, std::min(8, focusIndex))]  (line 482): the slot read
ArrSlot(i) == Max(0, Min(FocusLast, i))

\* orbitCamPos (lines 242-245) and the FOCUS offset (lines 487-488), in the
\* distance's unit, for a pitch and yaw in 1/1000 radian
SphericalOffset(dist, pitch, yaw) ==
    [x |-> (dist * ((cosf(pitch) * sinf(yaw)) \div 1000)) \div 1000,
     y |-> (dist * sinf(pitch)) \div 1000,
     z |-> (dist * ((cosf(pitch) * cosf(yaw)) \div 1000)) \div 1000]

\* FREE camera movement (lines 492-500)
FreeMove(dt, held) ==
    LET move == (IF rmbDown THEN MoveFast ELSE MoveSlow) * dt
        fwd == [x |-> sinf(freeYaw), z |-> -cosf(freeYaw)]
        right == [x |-> cosf(freeYaw), z |-> sinf(freeYaw)]
        n(k) == IF k \in held THEN 1 ELSE 0
        f == n("W") - n("S")
        r == n("D") - n("A")
        u == n("Q") - n("E")
    IN  [x |-> freePos.x + (f * fwd.x * move + r * right.x * move) \div 1000,
         y |-> freePos.y + u * move,
         z |-> freePos.z + (f * fwd.z * move + r * right.z * move) \div 1000]

(* The draw passes (lines 515-665).  Each takes the OpenGL state g it      *)
(* starts from and gives the state it leaves and the draws it issued.      *)

\* glDrawElements under the state g
Draw(g, pass, what) ==
    [pass |-> pass, what |-> what, program |-> g.program, depthMask |-> g.depthMask,
     cullFace |-> g.cullFace, useTexture |-> g.useTexture, texture |-> g.texture]

\* mutant: the sky pass leaves front-face culling and the depth mask as it set them
SkyPass_NotRestored(g) ==
    IF showStars
    THEN LET g1 == [g EXCEPT !.depthMask = FALSE, !.cullFace = "FRONT", !.program = "prog",
                             !.useTexture = TRUE, !.texture = textures["texStars"]]
         IN  [gl |-> g1, draws |-> <<Draw(g1, "sky", "skyMesh")>>]
    ELSE [gl |-> g, draws |-> <<>>]

\* starfield sky, inside-out (lines 516-539)
SkyPass(g) ==
    IF showStars
    THEN LET g1 == [g EXCEPT !.depthMask = FALSE, !.cullFace = "FRONT", !.program = "prog",
                             !.useTexture = TRUE, !.texture = textures["texStars"]]
         IN  [gl |-> [g1 EXCEPT !.cullFace = "BACK", !.depthMask = TRUE],
              draws |-> <<Draw(g1, "sky", "skyMesh")>>]
    ELSE [gl |-> g, draws |-> <<>>]

\* Planet::tex as constructed (lines 395-407)
PlanetTex ==
    [b \in Bodies |->
       CASE b = "sun" -> "texSun" [] b = "mercury" -> "texMercury" [] b = "venus" -> "texVenus"
         [] b = "earth" -> "texEarth" [] b = "moon" -> "texMoon" [] b = "mars" -> "texMars"
         [] b = "jupiter" -> "texJupiter" [] b = "saturn" -> "texSaturn"
         [] b = "uranus" -> "texUranus" [] b = "neptune" -> "texNeptune"
         [] b = "europa" -> "texMoon"]

\* the lit draws in source order (lines 555-633): what is drawn, the value
\* written to the useTexture uniform and the texture bound for it.
\* drawPlanet is always called with its default useTex = true.
LitDraws ==
    << [what |-> "sun",     useTex |-> TRUE, tex |-> "texSun"],
       [what |-> "mercury", useTex |-> TRUE, tex |-> PlanetTex["mercury"]],
       [what |-> "venus",   useTex |-> TRUE, tex |-> PlanetTex["venus"]],
       [what |-> "earth",   useTex |-> TRUE, tex |-> PlanetTex["earth"]],
       [what |-> "moon",    useTex |-> TRUE, tex |-> "texMoon"],
       [what |-> "mars",    useTex |-> TRUE, tex |-> PlanetTex["mars"]],
       [what |-> "jupiter", useTex |-> TRUE, tex |-> PlanetTex["jupiter"]],
       [what |-> "europa",  useTex |-> TRUE, tex |-> "texMoon"],
       [what |-> "saturn",  useTex |-> TRUE, tex |-> PlanetTex["saturn"]],
       [what |-> "ringMesh", useTex |-> TRUE, tex |-> "texRing"],
       [what |-> "uranus",  useTex |-> TRUE, tex |-> PlanetTex["uranus"]],
       [what |-> "neptune", useTex |-> TRUE, tex |-> PlanetTex["neptune"]] >>

\* main shader: the sun, the planets, the moons and the ring (lines 542-633)
LitPass(g) ==
    LET g0 == [g EXCEPT !.program = "prog"]
        at(k) == [g0 EXCEPT !.useTexture = LitDraws[k].useTex,
                            !.texture = textures[LitDraws[k].tex]]
    IN  [gl |-> at(Len(LitDraws)),
         draws |-> [k \in 1..Len(LitDraws) |-> Draw(at(k), "lit", LitDraws[k].what)]]

\* std::vector<Mesh> orbitLines (lines 373-378)
OrbitLineCount == 8

\* orbit lines (lines 636-648)
OrbitPass(g) ==
    IF showOrbits
    THEN LET g1 == [g EXCEPT !.program = "lineProg"]
         IN  [gl |-> g1, draws |-> [k \in 1..OrbitLineCount |-> Draw(g1, "orbit", "orbitLines")]]
    ELSE [gl |-> g, draws |-> <<>>]

\* HUD circle (lines 651-665)
HudPass(g) ==
    LET g1 == [g EXCEPT !.program = "lineProg"]
    IN  [gl |-> g1, draws |-> <<Draw(g1, "hud", "hudCircle")>>]

\* lines 515-665 in order
DrawPasses(g) ==
    LET s == SkyPass(g)
        l == LitPass(s.gl)
        o == OrbitPass(l.gl)
        h == HudPass(o.gl)
    IN  [gl |-> h.gl, draws |-> s.draws \o l.draws \o o.draws \o h.draws]

Frame(dt, held) ==
    /\ pc = "frame"
    /\ paused' = PausedAfterSpace(held)
    /\ prevSpace' = ("SPACE" \in held)
    /\ camYaw' = NudgedYaw(held)
    /\ planets' = Animate(Advance(paused', dt))
    /\ IF camMode = "ORBIT"
       THEN /\ eyePitch' = <<NudgedPitch(held)>>
            /\ focusBody' = <<>>
            /\ freePos' = freePos
       ELSE IF camMode = "FOCUS"
       THEN /\ eyePitch' = <<NudgedPitch(held)>>
            /\ focusBody' = <<ArrSlot(focusIndex)>>
            /\ freePos' = freePos
       ELSE /\ eyePitch' = <<>>
            /\ focusBody' = <<>>
            /\ freePos' = FreeMove(dt, held)
    \* lines 505-506, after the camera build
    /\ camPitch' = Clamp(NudgedPitch(held), -PitchLimit, PitchLimit)
    /\ camDist' = Clamp(camDist, CamDistMin, CamDistMax)
    /\ gl' = DrawPasses(gl).gl
    /\ draws' = DrawPasses(gl).draws
    /\ last' = last + dt
    /\ pc' = "poll"
    /\ UNCHANGED <<camMode, fovDeg, freeYaw, freePitch, focusIndex, focusDist, timeScale>>
    /\ UNCHANGED <<mouseVars, winVars, miscVars, textures, pureVars>>

(* The end of glfwPollEvents, the framebuffer-size sample (lines 670-671)  *)
(* and the loop test (line 421).                                           *)
PollEnd ==
    /\ pc = "poll"
    /\ winW' = wnd.w /\ winH' = wnd.h
    /\ pc' = IF shouldClose THEN "done" ELSE "frame"
    /\ UNCHANGED <<camVars, mouseVars, simVars, miscVars, frameVars, glVars, pureVars>>
    /\ UNCHANGED <<fullscreen, savedX, savedY, savedW, savedH, wnd>>

(* The user moves or resizes the window while it is windowed: GLFW's       *)
(* window changes, no handler of the program runs.                         *)
WindowChanged(x, y, w, h) ==
    /\ pc = "poll"
    /\ wnd.monitor = "none"
    /\ wnd' = [x |-> x, y |-> y, w |-> w, h |-> h, monitor |-> "none"]
    /\ UNCHANGED <<pc, camVars, mouseVars, simVars, miscVars, frameVars, glVars, pureVars>>
    /\ UNCHANGED <<fullscreen, savedX, savedY, savedW, savedH, winW, winH>>

----------------------------------------------------------------------------
(* Model bounds: caps on the accumulators the program leaves unbounded     *)

MaxTime == 6          \* in 1/4 second
MaxTimeScale == 6     \* in 1/4
MaxYaw == 80          \* in 1/1000 radian
MaxFreeTravel == 100  \* in 1/4 world unit, per axis, from the start position

CappedAt(maxTime) ==
    /\ last <= maxTime
    /\ timeScale <= MaxTimeScale
    /\ Abs(camYaw) <= MaxYaw /\ Abs(freeYaw) <= MaxYaw
    /\ Abs(freePos.x - FreePosInit.x) <= MaxFreeTravel
    /\ Abs(freePos.y - FreePosInit.y) <= MaxFreeTravel
    /\ Abs(freePos.z - FreePosInit.z) <= MaxFreeTravel

Capped == CappedAt(MaxTime)

----------------------------------------------------------------------------
(* Zoom: scroll in every mode, the Z/X focus-distance keys, mode switches  *)

ZoomScrolls == {-250, -60, 60, 250}
ZoomKeys == {"1", "2", "3", "Z", "X"}

NextZoom ==
    \/ \E yoff \in ZoomScrolls : scroll_cb(yoff)
    \/ \E key \in ZoomKeys : key_cb(key, "PRESS", FALSE)
    \/ Frame(0, {})
    \/ PollEnd

SpecZoom == Init /\ [][NextZoom]_vars

\* C1: after any scroll inputs, Z/X key presses and mode switches, the
\* Orbit distance camDist is within [5, 400] and the Focus distance
\* focusDist is within [3, 400].
C1_DistancesClamped ==
    /\ CamDistMin <= camDist /\ camDist <= CamDistMax
    /\ FocusDistMin <= focusDist /\ focusDist <= FocusDistMax

\* both clamps have acted: the Orbit distance sits on its upper limit and
\* the Focus distance on its lower limit, while in Focus mode
C1_Witness ==
    /\ camMode = "FOCUS"
    /\ camDist = CamDistMax
    /\ focusDist = FocusDistMin

\* C16: a scroll changes the one value the camera mode selects and leaves
\* the other two as they were: the field of view in Free mode, focusDist in
\* Focus mode, camDist in Orbit mode, each moved against the scroll delta
\* and clamped to its range; no scroll changes the camera mode, the yaw,
\* the pitch or the focus index.
C16_ScrollChangesOneValue ==
    [][\A yoff \in ZoomScrolls : scroll_cb(yoff) =>
          /\ camMode' = camMode /\ focusIndex' = focusIndex
          /\ camYaw' = camYaw /\ camPitch' = camPitch
          /\ freeYaw' = freeYaw /\ freePitch' = freePitch
          /\ CASE camMode = "FREE" ->
                     /\ fovDeg' = Max(20, Min(90, fovDeg - yoff))
                     /\ camDist' = camDist /\ focusDist' = focusDist
                [] camMode = "FOCUS" ->
                     /\ focusDist' = Max(3, Min(400, focusDist - 2 * yoff))
                     /\ camDist' = camDist /\ fovDeg' = fovDeg
                [] camMode = "ORBIT" ->
                     /\ camDist' = Max(5, Min(400, camDist - 2 * yoff))
                     /\ focusDist' = focusDist /\ fovDeg' = fovDeg]_vars

\* a scroll has acted in each of the three modes: the field of view, the
\* Orbit distance and the Focus distance have all left their initial values
C16_Witness ==
    /\ camMode = "FOCUS"
    /\ fovDeg = FovMax
    /\ camDist = CamDistInit + 2 * 60
    /\ focusDist = FocusDistInit + 2 * 60

----------------------------------------------------------------------------
(* Field of view: the -/= keys and scroll, in every mode *)

FovScrolls == {-250, -60, 60, 250}
FovKeys == {"1", "2", "3", "MINUS", "EQUAL"}

NextFov ==
    \/ \E yoff \in FovScrolls : scroll_cb(yoff)
    \/ \E key \in FovKeys : key_cb(key, "PRESS", FALSE)
    \/ Frame(0, {})
    \/ PollEnd

SpecFov == Init /\ [][NextFov]_vars

\* C2: the field of view starts at 45 degrees and is within [20, 90] in
\* every reachable state, whatever fov keys and scrolls arrive in any mode.
C2_FovInRange ==
    /\ fovDeg = FovInit
    /\ [](FovMin <= fovDeg /\ fovDeg <= FovMax)

\* the field of view sits on its lower limit in Free mode, where scroll
\* writes it
C2_Witness == camMode = "FREE" /\ fovDeg = FovMin

----------------------------------------------------------------------------
(* Focus cycle: N/P, mode switches, scroll, frames *)

FocusScrolls == {-250, 60}
FocusKeys == {"1", "2", "3", "N", "P"}

NextFocus ==
    \/ \E yoff \in FocusScrolls : scroll_cb(yoff)
    \/ \E key \in FocusKeys : key_cb(key, "PRESS", FALSE)
    \/ Frame(0, {})
    \/ PollEnd

SpecFocus == Init /\ [][NextFocus]_vars

RECURSIVE NextTimes(_, _)
NextTimes(i, n) == IF n = 0 THEN i ELSE NextTimes(FocusNext(i), n - 1)

\* C3: from any focus index the program reaches, next applied 9 times
\* returns to that index, and prev-then-next and next-then-prev leave it
\* unchanged.
C3_CycleIdentity ==
    /\ NextTimes(focusIndex, FocusCount) = focusIndex
    /\ FocusNext(FocusPrev(focusIndex)) = focusIndex
    /\ FocusPrev(FocusNext(focusIndex)) = focusIndex

\* the index sits on the last slot, where next wraps to 0
C3_Witness == focusIndex = FocusLast /\ FocusNext(focusIndex) = 0

\* C4: the focus index is always in 0..8, so the clamp at the arr[] lookup
\* never changes it and the slot a FOCUS frame reads is inside the list.
C4_FocusIndexInRange ==
    /\ focusIndex \in 0..FocusLast
    /\ ArrSlot(focusIndex) = focusIndex
    /\ \A k \in DOMAIN focusBody : focusBody[k] \in 0..FocusLast

\* a FOCUS frame has read the slot that prev wraps to from 0
C4_Witness ==
    /\ camMode = "FOCUS" /\ pc = "poll"
    /\ focusIndex = FocusLast /\ focusBody = <<FocusLast>>

----------------------------------------------------------------------------
(* Simulation clock: frames of varying dt, the space bar, the [ ] keys *)

SimDts == {0, 1, 2}
SimHeld == {"SPACE"}
SimKeys == {"LEFT_BRACKET", "RIGHT_BRACKET"}

NextSim ==
    \/ \E dt \in SimDts, held \in SUBSET SimHeld : Frame(dt, held) /\ Capped'
    \/ \E key \in SimKeys : key_cb(key, "PRESS", FALSE) /\ Capped'
    \/ PollEnd

SpecSim == Init /\ [][NextSim]_vars

\* C5: in every frame, for every body: if the pause flag is set when the
\* angles are advanced they do not change; otherwise orbitAngle grows by
\* orbitSpeed*dt*timeScale and spinAngle by spinSpeed*dt*timeScale.
C5_AngleUpdate ==
    [][\A dt \in SimDts, held \in SUBSET SimHeld :
         Frame(dt, held) =>
           \A b \in Bodies :
             IF paused'
             THEN planets'[b] = planets[b]
             ELSE /\ planets'[b].orbitAngle =
                       planets[b].orbitAngle + PlanetInit[b].orbitSpeed * dt * timeScale
                  /\ planets'[b].spinAngle =
                       planets[b].spinAngle + PlanetInit[b].spinSpeed * dt * timeScale]_vars

\* half a second has passed running at time scale 1.0 and half a second
\* paused: europa has moved 90 deg/s * 0.5 s, the sun has spun 10 deg/s * 0.5 s
C5_Witness ==
    /\ pc = "poll" /\ paused /\ timeScale = TimeScaleInit
    /\ last = 4
    /\ planets["europa"].orbitAngle = 90 * 2 * TimeScaleInit
    /\ planets["sun"].spinAngle = 10 * 2 * TimeScaleInit
    /\ planets["sun"].orbitAngle = 0

----------------------------------------------------------------------------
(* Pitch: right-button drags, the held Q/E nudge keys, mode switches *)

PitchCursorXs == {0}
PitchCursorYs == {0, 800}
PitchButtons == {"LEFT", "RIGHT"}
PitchHeld == {"Q", "E"}
PitchKeys == {"1", "2", "3"}

NextPitch ==
    \/ \E b \in PitchButtons, a \in {"PRESS", "RELEASE"} : mouse_btn_cb(b, a)
    \/ \E x \in PitchCursorXs, y \in PitchCursorYs : cursor_cb(x, y)
    \/ \E key \in PitchKeys : key_cb(key, "PRESS", FALSE)
    \/ \E held \in SUBSET PitchHeld : Frame(0, held)
    \/ PollEnd

SpecPitch == Init /\ [][NextPitch]_vars

\* C7: the pitch every Orbit or Focus frame uses to place the eye is
\* within [-89, 89] degrees.
C7_EyePitchClamped ==
    \A k \in DOMAIN eyePitch : -PitchLimit <= eyePitch[k] /\ eyePitch[k] <= PitchLimit

----------------------------------------------------------------------------
(* Orbit and Free: drags, scroll, movement keys, fov and focus-cycle keys, *)
(* frames, and switches between the two modes                              *)

FreeCursors == {<<0, 0>>, <<16, 1500>>}
FreeKeys == {"1", "2", "N", "P"}
FreeScrolls == {250}
FreeHelds == {{}, {"W", "Q"}}
FreeMaxTime == 2      \* in 1/4 second

NextFree ==
    \/ \E a \in {"PRESS", "RELEASE"} : mouse_btn_cb("RIGHT", a)
    \/ \E c \in FreeCursors : cursor_cb(c[1], c[2]) /\ CappedAt(FreeMaxTime)'
    \/ \E key \in FreeKeys : key_cb(key, "PRESS", FALSE)
    \/ \E yoff \in FreeScrolls : scroll_cb(yoff)
    \/ \E held \in FreeHelds : Frame(1, held) /\ CappedAt(FreeMaxTime)'
    \/ PollEnd

SpecFree == Init /\ [][NextFree]_vars

\* C6: no step taken in Free mode, nor the switch into or out of it,
\* changes the Orbit camera's camYaw, camPitch or camDist: they are on
\* return what they were when Orbit was left.
C6_OrbitStatePersists ==
    [][(camMode = "FREE" \/ camMode' = "FREE") =>
         (camYaw' = camYaw /\ camPitch' = camPitch /\ camDist' = camDist)]_vars

\* back in Orbit after a stay in Free that saw a drag-free frame with W and
\* Q held (freePos moved), a scroll (fov floored) and a focus-cycle key,
\* with the Orbit state as the drag and scroll before the switch left it
C6_Witness ==
    /\ camMode = "ORBIT" /\ pc = "poll" /\ last = 2
    /\ freePos # FreePosInit
    /\ fovDeg = FovMin
    /\ focusIndex = 1
    /\ camDist = CamDistMin /\ camPitch = -PitchLimit /\ camYaw = 80

----------------------------------------------------------------------------
(* Window: F11 and Alt+Enter, the user moving and resizing the window *)

WinXs == {100, 40}
WinYs == {100, 60}
WinSizes == {<<1280, 720>>, <<800, 600>>}
WinKeys == {"F11", "ENTER"}

InitWin ==
    /\ \E px \in WinXs, py \in WinYs : InitAt(px, py)
    /\ call = NoCall /\ ret = NoCall

NextWin ==
    \/ \E key \in WinKeys, alt \in BOOLEAN : key_cb(key, "PRESS", alt)
    \/ \E x \in WinXs, y \in WinYs, sz \in WinSizes : WindowChanged(x, y, sz[1], sz[2])
    \/ Frame(0, {})
    \/ PollEnd

SpecWin == InitWin /\ [][NextWin]_vars

\* C9: from any windowed state the program reaches, toggling fullscreen
\* twice with no window change in between leaves the window's position and
\* size as they were and the fullscreen flag false.
C9_ToggleTwiceRestores ==
    ~fullscreen =>
        LET twice == toggle_fullscreen(toggle_fullscreen(WinState))
        IN  /\ twice.wnd = wnd
            /\ ~twice.fullscreen

\* windowed again after a fullscreen round trip that started from a window
\* the user had moved and resized away from the saved defaults
C9_Witness ==
    /\ ~fullscreen /\ wnd.monitor = "none"
    /\ savedX = wnd.x /\ savedY = wnd.y /\ savedW = wnd.w /\ savedH = wnd.h
    /\ wnd.x # SavedInit.x /\ wnd.y # SavedInit.y
    /\ wnd.w # SavedInit.w /\ wnd.h # SavedInit.h

----------------------------------------------------------------------------
(* glm::mat4 as four rows; glm::rotate and glm::translate post-multiply.   *)
(* Angles in whole degrees; cos and sin are exact at the quarter turns,    *)
(* the only angles the transform checks draw.                              *)

CosDeg(d) == CASE d % 360 = 0 -> 1 [] d % 360 = 90 -> 0
               [] d % 360 = 180 -> -1 [] d % 360 = 270 -> 0
SinDeg(d) == CASE d % 360 = 0 -> 0 [] d % 360 = 90 -> 1
               [] d % 360 = 180 -> 0 [] d % 360 = 270 -> -1

Identity4 == << <<1, 0, 0, 0>>, <<0, 1, 0, 0>>, <<0, 0, 1, 0>>, <<0, 0, 0, 1>> >>

MatMul(A, B) ==
    [i \in 1..4 |-> [j \in 1..4 |->
        A[i][1] * B[1][j] + A[i][2] * B[2][j] + A[i][3] * B[3][j] + A[i][4] * B[4][j]]]

\* glm::rotate(M, glm::radians(deg), glm::vec3(0, 1, 0))
glm_rotate_y(M, deg) ==
    LET c == CosDeg(deg)
        sn == SinDeg(deg)
    IN  MatMul(M, << <<c, 0, sn, 0>>, <<0, 1, 0, 0>>, <<-sn, 0, c, 0>>, <<0, 0, 0, 1>> >>)

\* glm::translate(M, glm::vec3(x, y, z))
glm_translate(M, x, y, z) ==
    MatMul(M, << <<1, 0, 0, x>>, <<0, 1, 0, y>>, <<0, 0, 1, z>>, <<0, 0, 0, 1>> >>)

\* where a matrix puts the origin of the body's own frame, and where it
\* puts a direction
Translation(M) == <<M[1][4], M[2][4], M[3][4]>>
Linear(M, x, y, z) == <<M[1][1] * x + M[1][2] * y + M[1][3] * z,
                        M[2][1] * x + M[2][2] * y + M[2][3] * z,
                        M[3][1] * x + M[3][2] * y + M[3][3] * z>>

\* mutant: the parent's translate and rotate are commuted
MoonModel_Commuted(pa, pr, ma, mr, ms) ==
    LET Me == glm_rotate_y(glm_translate(Identity4, pr, 0, 0), pa)
        M1 == glm_rotate_y(Me, ma)
        M2 == glm_translate(M1, mr, 0, 0)
    IN  [Me |-> Me, Mm |-> glm_rotate_y(M2, ms)]

\* Moon around Earth (lines 585-589), Europa around Jupiter (lines 603-607):
\* pa, pr the parent's orbitAngle and orbitRadius; ma, mr, ms the moon's
\* orbitAngle, orbitRadius and spinAngle
MoonModel(pa, pr, ma, mr, ms) ==
    LET Me == glm_translate(glm_rotate_y(Identity4, pa), pr, 0, 0)
        M1 == glm_rotate_y(Me, ma)
        M2 == glm_translate(M1, mr, 0, 0)
    IN  [Me |-> Me, Mm |-> glm_rotate_y(M2, ms)]

QuarterTurns == {0, 90, 180, 270, 360, -90}
MoonPairs == {<<"earth", "moon">>, <<"jupiter", "europa">>}

InitMoon ==
    /\ InitAt(SavedInit.x, SavedInit.y)
    /\ ret = NoCall
    /\ \E pr \in MoonPairs, pa \in QuarterTurns, ma \in QuarterTurns, ms \in QuarterTurns :
          call = [fn |-> "moon", parent |-> pr[1], moon |-> pr[2],
                  parentAngle |-> pa, moonAngle |-> ma, moonSpin |-> ms]

EvalMoon ==
    /\ call.fn = "moon" /\ ret = NoCall
    /\ ret' = MoonModel(call.parentAngle, PlanetInit[call.parent].orbitRadius,
                        call.moonAngle, PlanetInit[call.moon].orbitRadius, call.moonSpin)
    /\ UNCHANGED <<pc, camVars, mouseVars, simVars, winVars, miscVars, frameVars, glVars, call>>

SpecMoon == InitMoon /\ [][EvalMoon]_vars

\* the scenario of C8: Earth (orbitRadius 12) at orbitAngle 90 degrees, its
\* moon (orbitRadius 2) at orbitAngle 0, any spin, transform computed
C8_Scenario ==
    /\ ret # NoCall
    /\ call.parent = "earth" /\ call.parentAngle = 90 /\ call.moonAngle = 0

\* C8 (as amended): in the scenario the parent's orbit point is (0,0,-12)
\* and the moon is placed at that point plus its offset (2,0,0) rotated by
\* the parent's orbit rotation, which is (0,0,-2): at (0,0,-14), whatever
\* the spin angle.
C8_MoonPlacement ==
    C8_Scenario =>
        /\ Translation(ret.Me) = <<0, 0, -12>>
        /\ Linear(ret.Me, 2, 0, 0) = <<0, 0, -2>>
        /\ Translation(ret.Mm) = <<0, 0, -14>>

\* the scenario with the moon spun a quarter turn
C8_Witness == C8_Scenario /\ call.moonSpin = 90

\* C8 (as stated): in the scenario the parent's orbit point is (0,0,12) and
\* the moon is placed at that point plus its offset rotated by the parent's
\* orbit rotation.
C8_AsStated ==
    C8_Scenario =>
        /\ Translation(ret.Me) = <<0, 0, 12>>
        /\ Translation(ret.Mm) =
             <<0 + Linear(ret.Me, 2, 0, 0)[1], 0 + Linear(ret.Me, 2, 0, 0)[2],
               12 + Linear(ret.Me, 2, 0, 0)[3]>>

----------------------------------------------------------------------------
(* Mesh builders (lines 160-232): the vertex and index lists they fill.    *)
(* A vertex is kept as the fractions the code forms for it, (float)i /     *)
(* stacks and (float)j / slices, numerator and denominator apart, so that  *)
(* a division by a zero count shows as den = 0.                            *)

Frac(n, d) == [num |-> n, den |-> d]

RECURSIVE SphereRow(_, _, _, _)
SphereRow(i, j, stacks, slices) ==
    IF j <= slices
    THEN <<[fv |-> Frac(i, stacks), fu |-> Frac(j, slices)]>>
             \o SphereRow(i, j + 1, stacks, slices)
    ELSE <<>>

RECURSIVE SphereVerts(_, _, _)
SphereVerts(i, stacks, slices) ==
    IF i <= stacks
    THEN SphereRow(i, 0, stacks, slices) \o SphereVerts(i + 1, stacks, slices)
    ELSE <<>>

RECURSIVE SphereQuadRow(_, _, _, _)
SphereQuadRow(i, j, stacks, slices) ==
    IF j < slices
    THEN LET r1 == i * (slices + 1)
             r2 == (i + 1) * (slices + 1)
         IN  <<r1 + j, r2 + j, r2 + j + 1, r1 + j, r2 + j + 1, r1 + j + 1>>
                 \o SphereQuadRow(i, j + 1, stacks, slices)
    ELSE <<>>

RECURSIVE SphereIdx(_, _, _)
SphereIdx(i, stacks, slices) ==
    IF i < stacks
    THEN SphereQuadRow(i, 0, stacks, slices) \o SphereIdx(i + 1, stacks, slices)
    ELSE <<>>

\* mutant: the seam column of vertices (j = slices) is not generated
buildSphere_NoSeam(stacks, slices) ==
    [v |-> SphereVerts(0, stacks, slices - 1), idx |-> SphereIdx(0, stacks, slices)]

buildSphere(stacks, slices) ==
    [v |-> SphereVerts(0, stacks, slices), idx |-> SphereIdx(0, stacks, slices)]

RECURSIVE RingLoop(_, _)
RingLoop(i, segments) ==
    IF i <= segments
    THEN LET rest == RingLoop(i + 1, segments)
             b == i * 2
         IN  [v |-> <<[u |-> Frac(i, segments), edge |-> "outer"],
                      [u |-> Frac(i, segments), edge |-> "inner"]>> \o rest.v,
              idx |-> (IF i < segments
                       THEN <<b, b + 1, b + 2, b + 1, b + 3, b + 2>>
                       ELSE <<>>) \o rest.idx]
    ELSE [v |-> <<>>, idx |-> <<>>]

buildRing(segments) == RingLoop(0, segments)

RECURSIVE OrbitLineLoop(_, _)
OrbitLineLoop(i, segments) ==
    IF i < segments
    THEN LET rest == OrbitLineLoop(i + 1, segments)
         IN  [v |-> <<[u |-> Frac(i, segments)]>> \o rest.v,
              idx |-> <<i, CRem(i + 1, segments)>> \o rest.idx]
    ELSE [v |-> <<>>, idx |-> <<>>]

\* mutant: the segment that closes the loop is left out
buildOrbitLine_Open(segments) ==
    LET mesh == OrbitLineLoop(0, segments)
    IN  [mesh EXCEPT !.idx = SubSeq(mesh.idx, 1, Len(mesh.idx) - 2)]

buildOrbitLine(segments) == OrbitLineLoop(0, segments)

\* the builder a call names, applied to its counts
BuildMesh(c) ==
    CASE c.fn = "buildSphere" -> buildSphere(c.stacks, c.slices)
      [] c.fn = "buildRing" -> buildRing(c.segments)
      [] c.fn = "buildOrbitLine" -> buildOrbitLine(c.segments)

MaxNegCount == 2      \* counts are drawn from -MaxNegCount .. the maxima below
MaxStacks == 3
MaxSlices == 3
MaxSegments == 8

MeshCalls ==
    {[fn |-> "buildSphere", stacks |-> s, slices |-> t] :
        s \in (0 - MaxNegCount)..MaxStacks, t \in (0 - MaxNegCount)..MaxSlices}
    \cup {[fn |-> f, segments |-> n] :
        f \in {"buildRing", "buildOrbitLine"}, n \in (0 - MaxNegCount)..MaxSegments}

InitMesh ==
    /\ InitAt(SavedInit.x, SavedInit.y)
    /\ ret = NoCall
    /\ call \in MeshCalls

EvalMesh ==
    /\ call \in MeshCalls /\ ret = NoCall
    /\ ret' = BuildMesh(call)
    /\ UNCHANGED <<pc, camVars, mouseVars, simVars, winVars, miscVars, frameVars, glVars, call>>

SpecMesh == InitMesh /\ [][EvalMesh]_vars

\* the counts of a call, and the call with every count floored to 1
Counts(c) == IF c.fn = "buildSphere" THEN {c.stacks, c.slices} ELSE {c.segments}
Floored(c) ==
    IF c.fn = "buildSphere"
    THEN [c EXCEPT !.stacks = Max(1, c.stacks), !.slices = Max(1, c.slices)]
    ELSE [c EXCEPT !.segments = Max(1, c.segments)]

\* C10: a builder called with a zero or negative count either rejects the
\* call (generates nothing) or generates what the counts floored to 1 give.
C10_DegenerateCountsHandled ==
    (ret # NoCall /\ \E n \in Counts(call) : n <= 0) =>
        \/ ret.v = <<>> /\ ret.idx = <<>>
        \/ ret = BuildMesh(Floored(call))

\* every index names a generated vertex (indices are 0-based)
IndicesInRange(mesh) == \A k \in DOMAIN mesh.idx : mesh.idx[k] \in 0..(Len(mesh.v) - 1)

\* C12: for stacks s >= 1 and slices t >= 1 buildSphere generates exactly
\* (s+1)(t+1) vertices and 6*s*t indices, two triangles for each of the s*t
\* quads, every index naming a generated vertex.
C12_SphereCounts ==
    (ret # NoCall /\ call.fn = "buildSphere" /\ call.stacks >= 1 /\ call.slices >= 1) =>
        /\ Len(ret.v) = (call.stacks + 1) * (call.slices + 1)
        /\ Len(ret.idx) = 6 * call.stacks * call.slices
        /\ IndicesInRange(ret)

\* a sphere of 2 stacks and 3 slices has been built: 12 vertices, 36 indices
C12_Witness ==
    /\ ret # NoCall /\ call.fn = "buildSphere"
    /\ call.stacks = 2 /\ call.slices = 3
    /\ Len(ret.v) = 12 /\ Len(ret.idx) = 36

\* C13: for segments n >= 1 buildRing generates 2(n+1) vertices and 6n
\* indices, and buildOrbitLine generates n vertices and 2n indices, its
\* last index pair being (n-1, 0), which closes the loop.
C13_RingAndOrbitLineCounts ==
    (ret # NoCall /\ call.fn \in {"buildRing", "buildOrbitLine"} /\ call.segments >= 1) =>
        LET n == call.segments
        IN  IF call.fn = "buildRing"
            THEN /\ Len(ret.v) = 2 * (n + 1)
                 /\ Len(ret.idx) = 6 * n
                 /\ IndicesInRange(ret)
            ELSE /\ Len(ret.v) = n
                 /\ Len(ret.idx) = 2 * n
                 /\ ret.idx[2 * n - 1] = n - 1
                 /\ ret.idx[2 * n] = 0
                 /\ IndicesInRange(ret)

\* an orbit line of 5 segments has been built, closed by the pair (4, 0)
C13_Witness ==
    /\ ret # NoCall /\ call.fn = "buildOrbitLine" /\ call.segments = 5
    /\ Len(ret.v) = 5 /\ SubSeq(ret.idx, 9, 10) = <<4, 0>>

----------------------------------------------------------------------------
(* The FOCUS camera target against the place the focused body is drawn,    *)
(* both computed in one pass of the loop body from the same orbitAngle.    *)

\* glm::vec3 p of the FOCUS camera build (lines 483-485)
FocusTarget(r, a) == <<r * CosDeg(a), 0, r * SinDeg(a)>>

\* glm::mat4 T of drawPlanet (lines 566-568)
PlanetModel(r, a, spin) ==
    glm_rotate_y(glm_translate(glm_rotate_y(Identity4, a), r, 0, 0), spin)

\* glm::mat4 Msun (line 555)
SunModel(spin) == glm_rotate_y(Identity4, spin)

\* the model matrix the body of arr[] slot k is drawn with
FocusedModel(k, a, spin) ==
    IF arr[k + 1] = "sun" THEN SunModel(spin)
    ELSE PlanetModel(PlanetInit[arr[k + 1]].orbitRadius, a, spin)

TargetSpins == {0, 90}

InitTarget ==
    /\ InitAt(SavedInit.x, SavedInit.y)
    /\ ret = NoCall
    /\ \E k \in 0..FocusLast, a \in QuarterTurns, sp \in TargetSpins :
          \* the sun's orbitAngle is never advanced (lines 463-473)
          /\ arr[k + 1] = "sun" => a = 0
          /\ call = [fn |-> "focus", slot |-> k, orbitAngle |-> a, spinAngle |-> sp]

EvalTarget ==
    /\ call.fn = "focus" /\ ret = NoCall
    /\ ret' = [target |-> FocusTarget(PlanetInit[arr[ArrSlot(call.slot) + 1]].orbitRadius,
                                      call.orbitAngle),
               drawn |-> Translation(FocusedModel(call.slot, call.orbitAngle, call.spinAngle))]
    /\ UNCHANGED <<pc, camVars, mouseVars, simVars, winVars, miscVars, frameVars, glVars, call>>

SpecTarget == InitTarget /\ [][EvalTarget]_vars

\* C14: in Focus mode, for every body of the focus list and every orbit
\* angle, the camera target computed in a frame is the world-space point at
\* which that body is drawn in the same frame (the translation part of its
\* model transform).
C14_TargetIsDrawnPosition ==
    (ret # NoCall /\ call.fn = "focus") => ret.target = ret.drawn

----------------------------------------------------------------------------
(* Drawing: any set of texture files may be missing; the user toggles the  *)
(* stars and the orbit lines.                                              *)

DrawKeys == {"H", "B"}

InitDraw ==
    /\ \E failed \in SUBSET TextureSet : InitLoaded(SavedInit.x, SavedInit.y, failed)
    /\ call = NoCall /\ ret = NoCall

NextDraw ==
    \/ \E key \in DrawKeys : key_cb(key, "PRESS", FALSE)
    \/ Frame(0, {})
    \/ PollEnd

SpecDraw == InitDraw /\ [][NextDraw]_vars

\* the lit draws of the last pass whose texture failed to load
FailedLitDraws == {i \in DOMAIN draws : draws[i].pass = "lit" /\ draws[i].texture = 0}

\* C11: with any texture files missing the loop body still runs and issues
\* every lit draw, and each draw whose texture failed to load (handle 0) is
\* issued with texturing disabled (useTexture false), so that the base
\* colour is used instead of a sample of the missing texture.
C11_FailedTextureUntextured ==
    pc = "poll" =>
        /\ \A k \in DOMAIN LitDraws :
              \E i \in DOMAIN draws : draws[i].pass = "lit" /\ draws[i].what = LitDraws[k].what
        /\ \A i \in FailedLitDraws : ~draws[i].useTexture

\* the order of the passes
PassRank(pass) == CASE pass = "sky" -> 0 [] pass = "lit" -> 1 [] pass = "orbit" -> 2
                    [] pass = "hud" -> 3

DrawsOf(ds, pass) == {i \in DOMAIN ds : ds[i].pass = pass}

\* the draws ds are what a pass of the loop body must issue when the stars
\* toggle is stars and the orbit-line toggle is orbits
DrawOrderFor(ds, stars, orbits) ==
    /\ \A i, j \in DOMAIN ds : i < j => PassRank(ds[i].pass) <= PassRank(ds[j].pass)
    /\ Cardinality(DrawsOf(ds, "sky")) = (IF stars THEN 1 ELSE 0)
    /\ Cardinality(DrawsOf(ds, "lit")) = Len(LitDraws)
    /\ \A i \in DrawsOf(ds, "lit") : \A j \in DrawsOf(ds, "lit") :
          ds[i].what = "sun" => i <= j
    /\ \E i \in DrawsOf(ds, "lit") : ds[i].what = "sun"
    /\ Cardinality(DrawsOf(ds, "orbit")) = (IF orbits THEN OrbitLineCount ELSE 0)
    /\ Cardinality(DrawsOf(ds, "hud")) = 1
    /\ \A i \in DOMAIN ds :
          IF ds[i].pass = "sky"
          THEN ~ds[i].depthMask /\ ds[i].cullFace = "FRONT"
          ELSE ds[i].depthMask /\ ds[i].cullFace = "BACK"

\* C15: in every pass of the loop body, whatever the stars and orbit-line
\* toggles are, the draws are the sky dome (only if stars are on), then the
\* sun and the other lit bodies, then the orbit lines (only if enabled),
\* then the HUD circle; the sky-dome draw, and no other, is issued with
\* depth writes disabled and front-face culling, and every lit, orbit-line
\* and HUD draw with depth writes enabled and back-face culling.
C15_DrawOrderAndState ==
    [][(pc = "frame" /\ pc' = "poll") => DrawOrderFor(draws', showStars, showOrbits)]_vars

\* a pass has been drawn with the stars on and the orbit lines off
C15_Witness ==
    /\ pc = "poll"
    /\ Len(draws) = 1 + Len(LitDraws) + 1
    /\ draws[1].pass = "sky" /\ draws[2].what = "sun" /\ draws[Len(draws)].pass = "hud"
    /\ showStars /\ ~showOrbits
    /\ gl.program = "lineProg"

====
